---- MODULE Spec2Model ----
(***************************************************************************)
(* Kimchi osinfo: architecture classification (_get_arch), the template    *)
(* defaults loader (_get_tmpl_defaults) and the per-request resolvers      *)
(* (lookup, get_template_default) of src/osinfo.py, and the libvirt        *)
(* probes of src/model/featuretests.py.                                    *)
(*                                                                         *)
(* Python strings that the code inspects character by character (machine   *)
(* names, version strings, numeric configuration values) are sequences of  *)
(* one-character strings; strings the code only compares or concatenates   *)
(* (distro names, pool names, paths, device models) are TLA+ strings.      *)
(***************************************************************************)
EXTENDS Integers, Sequences, FiniteSets, TLC

VARIABLES host, conf, pc, archRet, loadErr, heap, ret, call, orig, writes, probe

vars == <<host, conf, pc, archRet, loadErr, heap, ret, call, orig, writes, probe>>

(***************************************************************************)
(* Bounds of the model.                                                    *)
(***************************************************************************)
\* disk.N sections an override file may hold: N in 0..MaxDisks-1
MaxDisks == 2
\* writes the callers make to returned values in one run
MaxWrites == 2

(***************************************************************************)
(* Characters and Python values.                                           *)
(***************************************************************************)
Digits == <<"0", "1", "2", "3", "4", "5", "6", "7", "8", "9">>

Letters == <<"a", "b", "c", "d", "e", "f", "g", "h", "i", "j", "k", "l", "m",
             "n", "o", "p", "q", "r", "s", "t", "u", "v", "w", "x", "y", "z">>

\* code point order of the characters the inputs use: '.' < '_' is not kept
\* ('_' only occurs in machine names, which are never ordered)
CodeOrder == <<".">> \o Digits \o Letters

Range(s) == {s[i] : i \in 1..Len(s)}

IsDigit(c) == c \in Range(Digits)

IsLower(c) == c \in Range(Letters)

Ord(c) == CHOOSE i \in 1..Len(CodeOrder) : CodeOrder[i] = c

DigitVal(c) == (CHOOSE i \in 1..Len(Digits) : Digits[i] = c) - 1

\* Python values whose type the code may change: None, int, str
PyNone == [t |-> "none", n |-> 0, s |-> <<>>]

PyInt(i) == [t |-> "int", n |-> i, s |-> <<>>]

PyStr(cs) == [t |-> "str", n |-> 0, s |-> cs]

\* bool(x) of a None / int / str value
Truthy(x) == CASE x.t = "none" -> FALSE
               [] x.t = "int" -> x.n # 0
               [] OTHER -> x.s # <<>>

RECURSIVE DecimalValue(_)
DecimalValue(cs) ==
    IF cs = <<>> THEN 0
    ELSE 10 * DecimalValue(SubSeq(cs, 1, Len(cs) - 1)) + DigitVal(cs[Len(cs)])

\* int(x): an int stays, a string of decimal digits is converted, any other
\* string of the input alphabet raises ValueError
ToInt(x) ==
    CASE x.t = "int" -> [err |-> "", val |-> x]
      [] x.t = "str" /\ x.s # <<>> /\ \A i \in 1..Len(x.s) : IsDigit(x.s[i])
            -> [err |-> "", val |-> PyInt(DecimalValue(x.s))]
      [] x.t = "str" -> [err |-> "ValueError", val |-> x]
      [] OTHER -> [err |-> "TypeError", val |-> x]

(***************************************************************************)
(* distutils.version.LooseVersion as lookup uses it.                       *)
(***************************************************************************)
CharClass(c) == IF IsDigit(c) THEN "digit" ELSE IF IsLower(c) THEN "alpha" ELSE "dot"

\* length of the longest prefix of cs made of characters of the class of cs[1]
RECURSIVE RunLength(_)
RunLength(cs) ==
    IF Len(cs) <= 1 THEN Len(cs)
    ELSE IF CharClass(cs[2]) = CharClass(cs[1]) THEN 1 + RunLength(Tail(cs))
    ELSE 1

\* LooseVersion.parse: component_re.split keeps runs of digits and runs of
\* lowercase letters, drops the '.' separators, and int() converts the digit runs
RECURSIVE Components(_)
Components(cs) ==
    IF cs = <<>> THEN <<>>
    ELSE IF cs[1] = "." THEN Components(Tail(cs))
    ELSE LET k == RunLength(cs)
             run == SubSeq(cs, 1, k)
             comp == IF IsDigit(cs[1]) THEN PyInt(DecimalValue(run)) ELSE PyStr(run)
         IN  <<comp>> \o Components(SubSeq(cs, k + 1, Len(cs)))

\* str < str of Python: code point order, a proper prefix is smaller
RECURSIVE StrLess(_, _)
StrLess(a, b) ==
    IF b = <<>> THEN FALSE
    ELSE IF a = <<>> THEN TRUE
    ELSE IF a[1] # b[1] THEN Ord(a[1]) < Ord(b[1])
    ELSE StrLess(Tail(a), Tail(b))

\* list comparison of Python 3: the first differing pair decides, and an int
\* against a str there raises TypeError; without one the shorter list is smaller
RECURSIVE ListCmp(_, _)
ListCmp(a, b) ==
    IF a = <<>> /\ b = <<>> THEN "eq"
    ELSE IF a = <<>> THEN "lt"
    ELSE IF b = <<>> THEN "gt"
    ELSE IF a[1] = b[1] THEN ListCmp(Tail(a), Tail(b))
    ELSE IF a[1].t # b[1].t THEN "TypeError"
    ELSE IF a[1].t = "int" THEN (IF a[1].n < b[1].n THEN "lt" ELSE "gt")
    ELSE IF StrLess(a[1].s, b[1].s) THEN "lt" ELSE "gt"

\* LooseVersion(a) >= LooseVersion(b): "True", "False" or the exception raised.
\* LooseVersion(None) and LooseVersion('') skip parse(), so the comparison
\* reads a missing .version attribute.
LooseGE(a, b) ==
    IF ~Truthy(a) \/ ~Truthy(b) THEN "AttributeError"
    ELSE LET c == ListCmp(Components(a.s), Components(b.s))
         IN  CASE c = "TypeError" -> "TypeError"
               [] c = "lt" -> "False"
               [] OTHER -> "True"

(***************************************************************************)
(* Architecture classification.                                            *)
(***************************************************************************)
\* SUPPORTED_ARCHS in insertion order. ('ppc64le') and ('s390x') are plain
\* strings, not tuples: "tuple" tells which entries are tuples.
SUPPORTED_ARCHS ==
    << [arch |-> "x86", tuple |-> TRUE,
        sub |-> << <<"i", "3", "8", "6">>, <<"i", "6", "8", "6">>,
                   <<"x", "8", "6", "_", "6", "4">> >>],
       [arch |-> "power", tuple |-> TRUE,
        sub |-> << <<"p", "p", "c">>, <<"p", "p", "c", "6", "4">> >>],
       [arch |-> "ppc64le", tuple |-> FALSE,
        sub |-> << <<"p", "p", "c", "6", "4", "l", "e">> >>],
       [arch |-> "s390x", tuple |-> FALSE,
        sub |-> << <<"s", "3", "9", "0", "x">> >>] >>

\* x in s for two Python strings: x is a contiguous part of s
IsSubstring(x, s) ==
    \E i \in 0..Len(s) : i + Len(x) <= Len(s) /\ SubSeq(s, i + 1, i + Len(x)) = x

\* os.uname()[4] in sub_archs
InSubArchs(m, e) ==
    IF e.tuple THEN \E i \in 1..Len(e.sub) : e.sub[i] = m
    ELSE IsSubstring(m, e.sub[1])

\* _get_arch: the first entry that matches; "None" when the loop ends without one
get_arch(m) ==
    IF \E i \in 1..Len(SUPPORTED_ARCHS) : InSubArchs(m, SUPPORTED_ARCHS[i])
    THEN LET i == CHOOSE j \in 1..Len(SUPPORTED_ARCHS) :
                     /\ InSubArchs(m, SUPPORTED_ARCHS[j])
                     /\ \A k \in 1..(j - 1) : ~InSubArchs(m, SUPPORTED_ARCHS[k])
         IN  SUPPORTED_ARCHS[i].arch
    ELSE "None"

(***************************************************************************)
(* Dictionaries are functions from key strings; lists are sequences.       *)
(***************************************************************************)
EmptyDict == [k \in {} |-> 0]

Restrict(d, K) == [k \in (DOMAIN d) \cap K |-> d[k]]

Without(d, K) == [k \in (DOMAIN d) \ K |-> d[k]]

\* d.update(u): the keys of u win
Update(d, u) == u @@ d

\* d.get(k), for a string valued key: "" stands for the None of a missing key
\* (both are falsy and the code only tests the truth of what it gets)
GetStr(d, k) == IF k \in DOMAIN d THEN d[k] ELSE ""

(***************************************************************************)
(* The template defaults loader.                                           *)
(***************************************************************************)
\* the value of a 'pool' key: the plain name of the file (dict = FALSE) or the
\* {'name': ...} dictionary the loader builds from it (dict = TRUE)
PoolRaw(name) == [dict |-> FALSE, name |-> name]

PoolRef(name) == [dict |-> TRUE, name |-> name]

MemCeiling == 2048

MemSlotsDefault == 256

MemSlotsUbuntuPower == 32

\* _get_default_template_mem
get_default_template_mem(h) == IF h.mem > MemCeiling THEN MemCeiling ELSE h.mem

\* MEM_DEV_SLOTS.get(os.uname()[4], 256)
MEM_DEV_SLOTS(h) ==
    IF h.machine \in {<<"p", "p", "c", "6", "4">>, <<"p", "p", "c", "6", "4", "l", "e">>}
       /\ h.ubuntu
    THEN MemSlotsUbuntuPower
    ELSE MemSlotsDefault

BuiltinDisk == [size |-> PyInt(10), format |-> "qcow2", pool |-> PoolRaw("default")]

BuiltinPath == "/var/lib/libvirt/images/"

\* tmpl_defaults: the built-in values, before the file is read
tmpl_defaults(h) ==
    LET is_on_s390x == get_arch(h.machine) = "s390x"
    IN  [main |-> [networks |-> IF is_on_s390x THEN <<>> ELSE <<"default">>],
         memory |-> [current |-> PyInt(get_default_template_mem(h)),
                     maxmemory |-> PyInt(get_default_template_mem(h))],
         storage |-> (0 :> (IF is_on_s390x
                            THEN Update(Without(BuiltinDisk, {"pool"}),
                                        [path |-> BuiltinPath])
                            ELSE BuiltinDisk)),
         processor |-> [vcpus |-> PyInt(1), maxvcpus |-> PyInt(1)],
         graphics |-> [type |-> "vnc", listen |-> "127.0.0.1"]]

\* ConfigObj(config_file): a missing file gives an empty configuration, a file
\* that cannot be opened raises
ConfigObj(c) ==
    CASE c.state = "unreadable" -> [err |-> "IOError", val |-> EmptyDict]
      [] c.state = "missing" -> [err |-> "", val |-> EmptyDict]
      [] OTHER -> [err |-> "", val |-> c.sections]

\* Section.merge for a section of scalars
MergeSection(a, b) == Update(a, b)

\* Section.merge for the storage section, whose values are sections
MergeStorage(a, b) ==
    [k \in (DOMAIN a) \cup (DOMAIN b) |->
        IF k \in DOMAIN a /\ k \in DOMAIN b THEN MergeSection(a[k], b[k])
        ELSE IF k \in DOMAIN b THEN b[k] ELSE a[k]]

\* default_config.merge(config)
Merge(a, b) ==
    [k \in (DOMAIN a) \cup (DOMAIN b) |->
        IF k \in DOMAIN a /\ k \in DOMAIN b
        THEN (IF k = "storage" THEN MergeStorage(a[k], b[k])
              ELSE MergeSection(a[k], b[k]))
        ELSE IF k \in DOMAIN b THEN b[k] ELSE a[k]]

\* S390xStorage without the default_config.pop('storage') of line 235
S390xStorageKeepsBuiltin(dc, cfg) ==
    IF "storage" \notin DOMAIN cfg
    THEN [err |-> "AttributeError", default_config |-> dc, config |-> cfg]
    ELSE LET st == cfg["storage"]
         IN  IF ~(0 \in DOMAIN st /\ DOMAIN st[0] # {})
             THEN [err |-> "", default_config |-> dc, config |-> cfg]
             ELSE LET config_pool == IF "pool" \in DOMAIN st[0]
                                     THEN st[0]["pool"].name ELSE ""
                      config_path == IF "path" \in DOMAIN st[0] THEN st[0]["path"] ELSE ""
                  IN  IF config_pool = "" /\ config_path = ""
                      THEN [err |-> "KCHTMPL0040E", default_config |-> dc,
                            config |-> cfg]
                      ELSE [err |-> "", default_config |-> dc,
                            config |->
                              IF config_pool # "" /\ config_path # ""
                              THEN [cfg EXCEPT !["storage"] =
                                      [@ EXCEPT ![0] = [k \in (DOMAIN @) \ {"pool"} |-> @[k]]]]
                              ELSE cfg]

\* lines 232-254: on s390x a non-empty disk.0 section of the file replaces the
\* built-in storage section and must name a pool or a path
S390xStorage(dc, cfg) ==
    IF "storage" \notin DOMAIN cfg
    THEN [err |-> "AttributeError", default_config |-> dc, config |-> cfg]
    ELSE LET st == cfg["storage"]
         IN  IF ~(0 \in DOMAIN st /\ DOMAIN st[0] # {})
             THEN [err |-> "", default_config |-> dc, config |-> cfg]
             ELSE LET config_pool == IF "pool" \in DOMAIN st[0]
                                     THEN st[0]["pool"].name ELSE ""
                      config_path == GetStr(st[0], "path")
                  IN  IF config_pool = "" /\ config_path = ""
                      THEN [err |-> "KCHTMPL0040E", default_config |-> dc,
                            config |-> cfg]
                      ELSE [err |-> "",
                            default_config |-> Without(dc, {"storage"}),
                            config |->
                              IF config_pool # "" /\ config_path # ""
                              THEN [cfg EXCEPT !["storage"] =
                                      [@ EXCEPT ![0] = Without(@, {"pool"})]]
                              ELSE cfg]

PoolPrefix == "/plugins/kimchi/storagepools/"

\* lines 284-302: one pass of the loop over the storage section
DiskData(is_on_s390x, idx, section) ==
    LET data == Update(section, [index |-> idx])
    IN  IF GetStr(section, "path") # "" /\ is_on_s390x
        THEN [err |-> "",
              val |-> Update(data,
                        [size |-> IF "size" \notin DOMAIN section
                                  THEN BuiltinDisk.size ELSE section["size"],
                         format |-> IF "format" \notin DOMAIN section
                                    THEN BuiltinDisk.format ELSE section["format"]])]
        ELSE IF "pool" \notin DOMAIN section
        THEN [err |-> "KeyError", val |-> data]
        ELSE [err |-> "",
              val |-> Update(data,
                        [pool |-> PoolRef(PoolPrefix \o section["pool"].name)])]

\* line 283: storage_section.keys() in insertion order; the files modelled list
\* their disk.N sections in ascending N, after the built-in disk.0
RECURSIVE DiskKeys(_)
DiskKeys(K) ==
    IF K = {} THEN <<>>
    ELSE LET m == CHOOSE x \in K : \A y \in K : x <= y
         IN  <<m>> \o DiskKeys(K \ {m})

\* lines 306-313
CpuInfo(processor_section) ==
    LET rest == Without(processor_section, {"vcpus", "maxvcpus"})
        info == [vcpus |-> processor_section["vcpus"],
                 maxvcpus |-> processor_section["maxvcpus"]]
    IN  IF DOMAIN rest # {} THEN Update(info, [topology |-> rest]) ELSE info

\* lines 259-321: the defaults built from the merged configuration
BuildDefaults(h, default_config) ==
    LET is_on_s390x == get_arch(h.machine) = "s390x"
        current == ToInt(default_config["memory"]["current"])
        maxmemory == ToInt(default_config["memory"]["maxmemory"])
        storage_section == default_config["storage"]
        keys == DiskKeys(DOMAIN storage_section)
        disks == [i \in 1..Len(keys) |->
                    DiskData(is_on_s390x, keys[i], storage_section[keys[i]])]
        head == Update([domain |-> "kvm", arch |-> h.machine, cdrom_bus |-> "ide",
                        cdrom_index |-> 2, mouse_bus |-> "ps2"],
                       default_config["main"])
        console == IF is_on_s390x THEN [console |-> "virtio"] ELSE EmptyDict
    IN  IF current.err # "" THEN [err |-> current.err, val |-> EmptyDict]
        ELSE IF maxmemory.err # "" THEN [err |-> maxmemory.err, val |-> EmptyDict]
        ELSE IF \E i \in 1..Len(keys) : disks[i].err # ""
        THEN [err |-> disks[CHOOSE i \in 1..Len(keys) :
                              /\ disks[i].err # ""
                              /\ \A j \in 1..(i - 1) : disks[j].err = ""].err,
              val |-> EmptyDict]
        ELSE [err |-> "",
              val |-> Update(Update(head, console),
                        [memory |-> Update(default_config["memory"],
                                      [current |-> current.val,
                                       maxmemory |-> maxmemory.val]),
                         disks |-> [i \in 1..Len(keys) |-> disks[i].val],
                         cpu_info |-> CpuInfo(default_config["processor"]),
                         graphics |-> default_config["graphics"],
                         mem_dev_slots |-> MEM_DEV_SLOTS(h)])]

\* _get_tmpl_defaults: [err, val], val being the defaults dictionary
get_tmpl_defaults(h, c) ==
    LET is_on_s390x == get_arch(h.machine) = "s390x"
        file == ConfigObj(c)
        checked == IF is_on_s390x THEN S390xStorage(tmpl_defaults(h), file.val)
                   ELSE [err |-> "", default_config |-> tmpl_defaults(h),
                         config |-> file.val]
    IN  IF file.err # "" THEN [err |-> file.err, val |-> EmptyDict]
        ELSE IF checked.err # "" THEN [err |-> checked.err, val |-> EmptyDict]
        ELSE BuildDefaults(h, Merge(checked.default_config, checked.config))

(***************************************************************************)
(* The specification tables.                                               *)
(***************************************************************************)
PowerOld ==
    [disk_bus |-> "scsi", nic_model |-> "spapr-vlan", cdrom_bus |-> "scsi",
     kbd_type |-> "kbd", kbd_bus |-> "usb", mouse_bus |-> "usb", tablet_bus |-> "usb"]

PowerModern ==
    [disk_bus |-> "virtio", nic_model |-> "virtio", cdrom_bus |-> "scsi",
     kbd_bus |-> "usb", kbd_type |-> "kbd", mouse_bus |-> "usb", tablet_bus |-> "usb"]

Ppc64leSpec ==
    [disk_bus |-> "virtio", nic_model |-> "virtio", cdrom_bus |-> "scsi",
     kbd_bus |-> "usb", kbd_type |-> "keyboard", mouse_bus |-> "usb",
     tablet_bus |-> "usb"]

S390xSpec == [disk_bus |-> "virtio", nic_model |-> "virtio", cdrom_bus |-> "scsi"]

template_specs ==
    [x86 |-> [old |-> [disk_bus |-> "ide", nic_model |-> "e1000",
                       sound_model |-> "ich6"],
              modern |-> [disk_bus |-> "virtio", nic_model |-> "virtio",
                          sound_model |-> "ich6", tablet_bus |-> "usb"]],
     power |-> [old |-> PowerOld, modern |-> PowerModern],
     ppc64le |-> [old |-> Ppc64leSpec, modern |-> Ppc64leSpec],
     s390x |-> [old |-> S390xSpec, modern |-> S390xSpec]]

\* custom_specs: per distro the (gate version, per family update) pairs in the
\* order of the dictionary
custom_specs ==
    [fedora |-> << [v |-> PyStr(<<"2", "2">>),
                    config |-> [x86 |-> [video_model |-> "qxl"]]] >>,
     windows |-> << [v |-> PyStr(<<"x", "p">>),
                     config |-> [x86 |-> [nic_model |-> "pcnet"]]] >>]

PowerBases ==
    [rhel |-> PyStr(<<"6", ".", "5">>), fedora |-> PyStr(<<"1", "9">>),
     ubuntu |-> PyStr(<<"1", "4", ".", "0", "4">>),
     opensuse |-> PyStr(<<"1", "3", ".", "1">>),
     sles |-> PyStr(<<"1", "1", "s", "p", "3">>)]

modern_version_bases ==
    [x86 |-> [debian |-> PyStr(<<"6", ".", "0">>), ubuntu |-> PyStr(<<"7", ".", "1", "0">>),
              opensuse |-> PyStr(<<"1", "0", ".", "3">>),
              centos |-> PyStr(<<"5", ".", "3">>), rhel |-> PyStr(<<"6", ".", "0">>),
              fedora |-> PyStr(<<"1", "6">>), gentoo |-> PyStr(<<"0">>),
              sles |-> PyStr(<<"1", "1">>), arch |-> PyStr(<<"0">>)],
     power |-> PowerBases,
     ppc64le |-> PowerBases]

(***************************************************************************)
(* lookup and get_template_default.                                        *)
(***************************************************************************)
\* a distro argument: None or a string
DNone == [t |-> "none", s |-> ""]

DStr(x) == [t |-> "str", s |-> x]

Unknown == <<"u", "n", "k", "n", "o", "w", "n">>

Ppc64 == <<"p", "p", "c", "6", "4">>

Ppc64le == <<"p", "p", "c", "6", "4", "l", "e">>

S390x == <<"s", "3", "9", "0", "x">>

\* CustomSpecs with '>' in place of the '>=' of line 370
CustomSpecsAboveGate(params, specs, version, arch) ==
    IF specs = <<>> THEN [err |-> "", val |-> params]
    ELSE LET ge == LooseGE(version, specs[1].v)
             config == specs[1].config
         IN  IF ge \notin {"True", "False"} THEN [err |-> ge, val |-> params]
             ELSE [err |-> "",
                   val |-> IF ge = "True" /\ LooseGE(specs[1].v, version) = "False"
                              /\ arch \in DOMAIN config
                           THEN Update(params, config[arch]) ELSE params]

\* lines 368-371: the custom specifications whose gate the version reaches,
\* merged in order; a comparison that raises ends the call
RECURSIVE CustomSpecs(_, _, _, _)
CustomSpecs(params, specs, version, arch) ==
    IF specs = <<>> THEN [err |-> "", val |-> params]
    ELSE LET ge == LooseGE(version, specs[1].v)
             config == specs[1].config
         IN  IF ge \notin {"True", "False"} THEN [err |-> ge, val |-> params]
             ELSE CustomSpecs(
                    IF ge = "True" /\ arch \in DOMAIN config
                    THEN Update(params, config[arch]) ELSE params,
                    Tail(specs), version, arch)

\* lines 346-365: the parameters after the template spec is chosen; era names
\* the template_specs entry that was merged ("none" when the call raised first)
TemplateSpec(p, h, distro, version) ==
    LET arch == get_arch(h.machine)
        p1 == Update(p, [os_distro |-> distro, os_version |-> version])
        p2 == IF p1["arch"] = Ppc64le THEN Update(p1, [arch |-> Ppc64]) ELSE p1
        unknown == [os_distro |-> DStr("unknown"), os_version |-> PyStr(Unknown)]
    IN  IF p2["arch"] = S390x \/ arch = "s390x"
        THEN IF arch \notin DOMAIN template_specs
             THEN [err |-> "KeyError", val |-> p2, era |-> "none"]
             ELSE [err |-> "", era |-> "old",
                   val |-> LET q == Update(p2, template_specs[arch]["old"])
                           IN  IF distro.s = "" THEN Update(q, unknown) ELSE q]
        ELSE IF arch \notin DOMAIN modern_version_bases
        THEN [err |-> "KeyError", val |-> p2, era |-> "none"]
        ELSE IF distro.t = "str" /\ distro.s \in DOMAIN modern_version_bases[arch]
        THEN LET ge == LooseGE(version, modern_version_bases[arch][distro.s])
             IN  CASE ge = "True" ->
                        [err |-> "", era |-> "modern",
                         val |-> Update(p2, template_specs[arch]["modern"])]
                   [] ge = "False" ->
                        [err |-> "", era |-> "old",
                         val |-> Update(p2, template_specs[arch]["old"])]
                   [] OTHER -> [err |-> ge, val |-> p2, era |-> "none"]
        ELSE [err |-> "", era |-> "old",
              val |-> Update(Update(p2, unknown), template_specs[arch]["old"])]

IconPrefix == "plugins/kimchi/images/icon-"

\* lines 346-378, on the top level dictionary p of the copy of defaults
LookupParams(p, h, distro, version) ==
    LET arch == get_arch(h.machine)
        t == TemplateSpec(p, h, distro, version)
        specs == IF distro.t = "str" /\ distro.s \in DOMAIN custom_specs
                 THEN custom_specs[distro.s] ELSE <<>>
        c == CustomSpecs(t.val, specs, version, arch)
        icon == IF distro.t = "str" /\ distro.s \in h.icons
                THEN IconPrefix \o distro.s \o ".png"
                ELSE IconPrefix \o "vm.png"
    IN  IF t.err # "" THEN t
        ELSE IF c.err # "" THEN [err |-> c.err, val |-> c.val, era |-> t.era]
        ELSE [err |-> "", val |-> Update(c.val, [icon |-> icon]), era |-> t.era]

(***************************************************************************)
(* The module global 'defaults' and the values handed to callers live on a *)
(* heap of objects. An address names the owner of the object (the module,  *)
(* "defaults", or the caller holding a copy) and the object's place in the *)
(* defaults tree.                                                          *)
(***************************************************************************)
Addr(r, k, i) == [r |-> r, k |-> k, i |-> i]

RootAddr(r) == Addr(r, "root", 0)

\* the keys of the defaults dictionary whose values are mutable objects
RefKeys == {"networks", "memory", "cpu_info", "graphics", "disks"}

\* the heap holding the dictionary d as the tree of objects owned by r
Store(d, r) ==
    LET root == [k \in DOMAIN d |-> IF k \in RefKeys THEN Addr(r, k, 0) ELSE d[k]]
        disks == [i \in 1..Len(d["disks"]) |-> Addr(r, "disk", i)]
    IN  (RootAddr(r) :> root)
        @@ (Addr(r, "disks", 0) :> disks)
        @@ [a \in {Addr(r, k, 0) : k \in RefKeys \ {"disks"}} |-> d[a.k]]
        @@ [a \in {Addr(r, "disk", i) : i \in 1..Len(d["disks"])} |-> d["disks"][a.i]]

\* the objects the object at address a refers to
Refs(h, a) ==
    IF a.k = "root" THEN {h[a][k] : k \in RefKeys \cap DOMAIN h[a]}
    ELSE IF a.k = "disks" THEN Range(h[a])
    ELSE {}

RECURSIVE Reach(_, _)
Reach(h, a) == {a} \cup UNION {Reach(h, b) : b \in Refs(h, a)}

Moved(a, r) == [a EXCEPT !.r = r]

\* the object at a with its references redirected to the copies owned by r
MovedObject(h, a, r) ==
    IF a.k = "root"
    THEN [k \in DOMAIN h[a] |-> IF k \in RefKeys THEN Moved(h[a][k], r) ELSE h[a][k]]
    ELSE IF a.k = "disks" THEN [i \in 1..Len(h[a]) |-> Moved(h[a][i], r)]
    ELSE h[a]

\* what r owned before is dropped: the caller holds one value at a time
Drop(h, r) == [a \in {b \in DOMAIN h : b.r # r} |-> h[a]]

\* copy.copy(x) in place of copy.deepcopy(x): only the object at a is copied,
\* what it refers to stays shared
ShallowCopy(h, a, r) == (Moved(a, r) :> h[a]) @@ Drop(h, r)

\* copy.deepcopy(x), x at address a: the heap with a copy of every object
\* reachable from a, owned by r
RECURSIVE CopyAll(_, _, _)
CopyAll(h, S, r) ==
    IF S = {} THEN EmptyDict
    ELSE LET x == CHOOSE y \in S : TRUE
         IN  (Moved(x, r) :> MovedObject(h, x, r)) @@ CopyAll(h, S \ {x}, r)

deepcopy(h, a, r) == CopyAll(h, Reach(h, a), r) @@ Drop(h, r)

\* the value of the object at address a, references followed
Deref(h, a) ==
    IF a.k = "root"
    THEN [k \in DOMAIN h[a] |->
            IF k = "disks" THEN [i \in 1..Len(h[h[a][k]]) |-> h[h[h[a][k]][i]]]
            ELSE IF k \in RefKeys THEN h[h[a][k]]
            ELSE h[a][k]]
    ELSE IF a.k = "disks" THEN [i \in 1..Len(h[a]) |-> h[h[a][i]]]
    ELSE h[a]

\* the module global 'defaults'
DefaultsRef == RootAddr("defaults")

defaults == Deref(heap, DefaultsRef)

(***************************************************************************)
(* Inputs: machine names, hosts and template.conf files.                   *)
(***************************************************************************)
KnownMachines == UNION {Range(SUPPORTED_ARCHS[i].sub) : i \in 1..Len(SUPPORTED_ARCHS)}

\* every contiguous part of a known machine name, the empty string included
Fragments ==
    UNION {{SubSeq(m, t[1], t[2]) :
              t \in {u \in (1..(Len(m) + 1)) \X (0..Len(m)) : u[1] <= u[2] + 1}} :
           m \in KnownMachines}

ForeignMachines ==
    {<<"a", "r", "m">>, <<"a", "a", "r", "c", "h", "6", "4">>, <<"m", "i", "p", "s">>,
     <<"x", "8", "6">>, <<"i", "5", "8", "6">>, <<"a", "m", "d", "6", "4">>,
     <<"s", "3", "9", "0", "x", "x">>, <<"p", "p", "c", "6", "4", "e", "l">>}

MachineStrings == Fragments \cup ForeignMachines

\* a host: os.uname()[4], whether platform.linux_distribution() names Ubuntu,
\* the MiB of memory psutil reports, the distros with an icon in the ui directory
Host(m, u, mem, icons) == [machine |-> m, ubuntu |-> u, mem |-> mem, icons |-> icons]

SmallMem == 1024

LargeMem == 4096

NoIcons == {}

SomeIcons == {"fedora", "ubuntu", "debian", "windows"}

Hosts ==
    {Host(m, FALSE, LargeMem, SomeIcons) : m \in KnownMachines}
    \cup {Host(m, TRUE, SmallMem, NoIcons) :
            m \in {<<"p", "p", "c", "6", "4">>, <<"p", "p", "c", "6", "4", "l", "e">>,
                   <<"s", "3", "9", "0", "x">>}}

DiskZeroSections ==
    {Restrict([pool |-> PoolRaw(p), path |-> q, size |-> PyStr(<<"2", "0">>)], K) :
       p \in {"", "ISO"}, q \in {"", "/data"}, K \in SUBSET {"pool", "path", "size"}}

OtherDiskSections ==
    {Restrict([pool |-> PoolRaw("ISO"), path |-> "/data"], K) :
       K \in SUBSET {"pool", "path"}}

StorageSections ==
    UNION {{f \in [K -> DiskZeroSections \cup OtherDiskSections] :
              \A n \in K : f[n] \in (IF n = 0 THEN DiskZeroSections
                                     ELSE OtherDiskSections)} :
           K \in SUBSET (0..(MaxDisks - 1))}

MemorySections ==
    {EmptyDict,
     [current |-> PyStr(<<"5", "1", "2">>), maxmemory |-> PyStr(<<"1", "0", "2", "4">>)],
     [maxmemory |-> PyStr(<<"m", "a", "x">>)]}

ProcessorSections ==
    {EmptyDict,
     [vcpus |-> PyStr(<<"2">>), maxvcpus |-> PyStr(<<"4">>)],
     [vcpus |-> PyStr(<<"2">>), sockets |-> PyStr(<<"1">>), cores |-> PyStr(<<"2">>)]}

MainSections == {EmptyDict, [networks |-> <<"br0">>]}

GraphicsSections == {EmptyDict, [type |-> "spice"]}

SectionSets ==
    {{"main", "memory", "storage", "processor", "graphics"}, {"storage"},
     {"main", "memory", "processor", "graphics"}, {"memory"}, {}}

ParsedFiles ==
    {Restrict(f, K) :
       f \in [main : MainSections, memory : MemorySections, storage : StorageSections,
              processor : ProcessorSections, graphics : GraphicsSections],
       K \in SectionSets}

MissingFile == [state |-> "missing", sections |-> EmptyDict]

UnreadableFile == [state |-> "unreadable", sections |-> EmptyDict]

ConfFiles ==
    {MissingFile, UnreadableFile} \cup {[state |-> "parsed", sections |-> f] : f \in ParsedFiles}

\* the template.conf as shipped: every section present, every value commented out
ShippedFile ==
    [state |-> "parsed",
     sections |-> [main |-> EmptyDict, memory |-> EmptyDict,
                   storage |-> (0 :> EmptyDict), processor |-> EmptyDict,
                   graphics |-> EmptyDict]]

(***************************************************************************)
(* State.                                                                  *)
(***************************************************************************)
Callers == {"c1", "c2"}

NoRet == [kind |-> "none"]

NoCall == [op |-> "none"]

\* no probe of featuretests.py is running; environment is
\* cherrypy.config.get('environment'), handler the libvirt error handler
Idle(environment) ==
    [pc |-> "idle", fn |-> "none", environment |-> environment,
     handler |-> "default", outcome |-> "none", code |-> 0, pool |-> "none",
     logged |-> FALSE, pending |-> "none", result |-> "none", calls |-> 0]

NoProbe == Idle("development")

\* nothing has run: the host and the file are given, the module is not imported
Boot(h, c) ==
    /\ host = h
    /\ conf = c
    /\ pc = "boot"
    /\ archRet = "pending"
    /\ loadErr = ""
    /\ heap = EmptyDict
    /\ ret = [c0 \in Callers |-> NoRet]
    /\ call = [c0 \in Callers |-> NoCall]
    /\ orig = [c0 \in Callers |-> NoRet]
    /\ writes = 0
    /\ probe = NoProbe

(***************************************************************************)
(* Classification of a machine name.                                       *)
(***************************************************************************)
InitArch == \E m \in MachineStrings : Boot(Host(m, FALSE, SmallMem, NoIcons), MissingFile)

GetArch ==
    /\ pc = "boot"
    /\ archRet = "pending"
    /\ archRet' = get_arch(host.machine)
    /\ pc' = "classified"
    /\ UNCHANGED <<host, conf, loadErr, heap, ret, call, orig, writes, probe>>

SpecArch == InitArch /\ [][GetArch]_vars

(***************************************************************************)
(* Import of the module: defaults = _get_tmpl_defaults().                  *)
(***************************************************************************)
InitLoad == \E h \in Hosts, c \in ConfFiles : Boot(h, c)

LoadDefaults ==
    /\ pc = "boot"
    /\ archRet = "pending"
    /\ LET r == get_tmpl_defaults(host, conf)
       IN  IF r.err = ""
           THEN /\ heap' = Store(r.val, "defaults")
                /\ loadErr' = ""
                /\ pc' = "loaded"
           ELSE /\ heap' = heap
                /\ loadErr' = r.err
                /\ pc' = "failed"
    /\ UNCHANGED <<host, conf, archRet, ret, call, orig, writes, probe>>

SpecLoad == InitLoad /\ [][LoadDefaults]_vars

(***************************************************************************)
(* Requests served after the import: lookup and get_template_default, and  *)
(* the callers' own writes to what they were handed.                       *)
(***************************************************************************)
V(cs) == PyStr(cs)

Distros ==
    {DNone, DStr(""), DStr("fedora"), DStr("windows"), DStr("rhel"), DStr("sles"),
     DStr("ubuntu"), DStr("beos")}

Versions ==
    {PyNone, V(<<>>), V(<<"5">>), V(<<"6", ".", "0">>), V(<<"6", ".", "5">>),
     V(<<"1", "1">>), V(<<"1", "1", ".", "1">>), V(<<"1", "1", "s", "p", "3">>),
     V(<<"1", "6">>), V(<<"2", "1">>), V(<<"2", "2">>), V(<<"2", "2", "a">>),
     V(<<"2", "3">>), V(<<"x", "p">>), V(<<"v", "i", "s", "t", "a">>)}

TemplateTypes == {"old", "modern"}

Fields ==
    {"disk_bus", "nic_model", "cdrom_bus", "kbd_type", "kbd_bus", "mouse_bus",
     "tablet_bus", "sound_model", "memory", "disks", "no_such_field"}

\* the hosts and files the serving runs start from
ServingFiles ==
    {ShippedFile,
     [state |-> "parsed",
      sections |-> [ShippedFile.sections EXCEPT
                      !["memory"] = [current |-> V(<<"5", "1", "2">>)],
                      !["storage"] = (0 :> [pool |-> PoolRaw("ISO")])]]}

\* the module is imported: defaults holds what _get_tmpl_defaults returned
Serving(h, c) ==
    /\ get_tmpl_defaults(h, c).err = ""
    /\ host = h
    /\ conf = c
    /\ pc = "serving"
    /\ archRet = get_arch(h.machine)
    /\ loadErr = ""
    /\ heap = Store(get_tmpl_defaults(h, c).val, "defaults")
    /\ ret = [c0 \in Callers |-> NoRet]
    /\ call = [c0 \in Callers |-> NoCall]
    /\ orig = [c0 \in Callers |-> NoRet]
    /\ writes = 0
    /\ probe = NoProbe

Init == \E h \in Hosts, c \in ServingFiles : Serving(h, c)

\* what the caller remembers of a value it was handed: as returned, and as the
\* caller itself last left it
Remember(h, a) == LET v == Deref(h, a) IN [kind |-> "held", first |-> v, now |-> v]

\* lookup(distro, version), called by c
Lookup(c, distro, version) ==
    /\ pc = "serving"
    /\ \E copied \in {deepcopy(heap, DefaultsRef, c)} :
       \E r \in {LookupParams(copied[RootAddr(c)], host, distro, version)} :
       \E after \in {[copied EXCEPT ![RootAddr(c)] = r.val]} :
           /\ call' = [call EXCEPT ![c] = [op |-> "lookup", distro |-> distro,
                                           version |-> version, era |-> r.era]]
           /\ IF r.err = ""
              THEN /\ heap' = after
                   /\ ret' = [ret EXCEPT ![c] = [kind |-> "params", ref |-> RootAddr(c)]]
                   /\ orig' = [orig EXCEPT ![c] = Remember(after, RootAddr(c))]
              ELSE /\ heap' = Drop(heap, c)
                   /\ ret' = [ret EXCEPT ![c] = [kind |-> "raise", err |-> r.err]]
                   /\ orig' = [orig EXCEPT ![c] = NoRet]
    /\ UNCHANGED <<host, conf, pc, archRet, loadErr, writes, probe>>

\* lines 329-335 on the top level dictionary p of the copy of defaults
TemplateDefault(p, h, template_type, field) ==
    LET arch == get_arch(h.machine)
        host_arch == IF arch = "ppc64le" THEN "power" ELSE arch
    IN  IF host_arch \notin DOMAIN template_specs
           \/ template_type \notin DOMAIN template_specs[host_arch]
        THEN [err |-> "KeyError", val |-> p]
        ELSE LET q == Update(p, template_specs[host_arch][template_type])
             IN  IF field \notin DOMAIN q THEN [err |-> "KeyError", val |-> q]
                 ELSE [err |-> "", val |-> q]

\* get_template_default(template_type, field), called by c
GetTemplateDefault(c, template_type, field) ==
    /\ pc = "serving"
    /\ \E copied \in {deepcopy(heap, DefaultsRef, c)} :
       \E r \in {TemplateDefault(copied[RootAddr(c)], host, template_type, field)} :
       \E after \in {[copied EXCEPT ![RootAddr(c)] = r.val]} :
           /\ call' = [call EXCEPT ![c] = [op |-> "get_template_default",
                                           template_type |-> template_type,
                                           field |-> field]]
           /\ IF r.err # ""
              THEN /\ heap' = Drop(heap, c)
                   /\ ret' = [ret EXCEPT ![c] = [kind |-> "raise", err |-> r.err]]
                   /\ orig' = [orig EXCEPT ![c] = NoRet]
              ELSE IF field \in RefKeys
              THEN /\ heap' = after
                   /\ ret' = [ret EXCEPT ![c] = [kind |-> "object", ref |-> r.val[field]]]
                   /\ orig' = [orig EXCEPT ![c] = Remember(after, r.val[field])]
              ELSE /\ heap' = Drop(heap, c)
                   /\ ret' = [ret EXCEPT ![c] = [kind |-> "scalar", val |-> r.val[field]]]
                   /\ orig' = [orig EXCEPT ![c] = NoRet]
    /\ UNCHANGED <<host, conf, pc, archRet, loadErr, writes, probe>>

\* the object at a after a caller's write: a key set in a dictionary, an item
\* appended to the network list, the last disk removed from the disk list
Written(a, obj) ==
    CASE a.k = "networks" -> Append(obj, "edited")
      [] a.k = "disks" -> SubSeq(obj, 1, Len(obj) - 1)
      [] OTHER -> Update(obj, [edited |-> TRUE])

\* caller c changes an object of the value it holds
Mutate(c, a) ==
    /\ pc = "serving"
    /\ writes < MaxWrites
    /\ ret[c].kind \in {"params", "object"}
    /\ a \in Reach(heap, ret[c].ref)
    /\ Written(a, heap[a]) # heap[a]
    /\ heap' = [heap EXCEPT ![a] = Written(a, @)]
    /\ orig' = [orig EXCEPT ![c] = [@ EXCEPT !.now = Deref(heap', ret[c].ref)]]
    /\ writes' = writes + 1
    /\ UNCHANGED <<host, conf, pc, archRet, loadErr, ret, call, probe>>

Next ==
    \/ \E d \in Distros, v \in Versions : Lookup("c1", d, v)
    \/ \E t \in TemplateTypes, f \in Fields : GetTemplateDefault("c1", t, f)

Spec == Init /\ [][Next]_vars

\* two callers holding values at the same time and writing to them
SharedHosts ==
    {Host(m, FALSE, LargeMem, SomeIcons) :
       m \in {<<"x", "8", "6", "_", "6", "4">>, Ppc64le, S390x}}

SharedDistros == {DNone, DStr("fedora")}

SharedVersions == {PyNone, V(<<"2", "2">>)}

SharedFields == {"memory", "nic_model"}

InitShared == \E h \in SharedHosts : Serving(h, ShippedFile)

NextShared ==
    \E c \in Callers :
        \/ \E d \in SharedDistros, v \in SharedVersions : Lookup(c, d, v)
        \/ \E f \in SharedFields : GetTemplateDefault(c, "old", f)
        \/ \E a \in DOMAIN heap : Mutate(c, a)

SpecShared == InitShared /\ [][NextShared]_vars

(***************************************************************************)
(* Properties of the loader and of the classification.                     *)
(***************************************************************************)
X86Machines == {<<"i", "3", "8", "6">>, <<"i", "6", "8", "6">>, <<"x", "8", "6", "_", "6", "4">>}

PowerMachines == {<<"p", "p", "c">>, Ppc64}

\* C3: classify returns the documented family for the seven supported machine
\* names and fails with UnsupportedArchitecture for every other string (the
\* empty string and fragments of a known name included).
C3_ClassifyOrFail ==
    pc = "classified" =>
        /\ host.machine \in X86Machines => archRet = "x86"
        /\ host.machine \in PowerMachines => archRet = "power"
        /\ host.machine = Ppc64le => archRet = "ppc64le"
        /\ host.machine = S390x => archRet = "s390x"
        /\ host.machine \notin X86Machines \cup PowerMachines \cup {Ppc64le, S390x}
              => archRet = "UnsupportedArchitecture"

\* a descriptor has a pool, or a path, when the key is set to a non-empty value
HasPool(disk) == "pool" \in DOMAIN disk /\ disk["pool"].name # ""

HasPath(disk) == "path" \in DOMAIN disk /\ disk["path"] # ""

\* C2: every disk descriptor of the loaded defaults has exactly one of pool
\* and path.
C2_DiskPoolXorPath ==
    pc = "loaded" =>
        \A i \in 1..Len(defaults["disks"]) :
            HasPool(defaults["disks"][i]) # HasPath(defaults["disks"][i])

OnS390x == get_arch(host.machine) = "s390x"

NoStorageOverride ==
    conf.state \in {"missing", "unreadable"} \/ "storage" \notin DOMAIN conf.sections

\* C4: with the file missing, unreadable or without a storage section the load
\* does not fail, and a missing or unreadable file gives the built-in values;
\* the load fails only on s390x files that hold a storage section.
C4_OnlyS390xStorageIsFatal ==
    pc \in {"loaded", "failed"} =>
        /\ NoStorageOverride => pc = "loaded"
        /\ (conf.state \in {"missing", "unreadable"} /\ pc = "loaded") =>
              /\ defaults["memory"]
                   = [current |-> PyInt(IF host.mem > 2048 THEN 2048 ELSE host.mem),
                      maxmemory |-> PyInt(IF host.mem > 2048 THEN 2048 ELSE host.mem)]
              /\ defaults["cpu_info"] = [vcpus |-> PyInt(1), maxvcpus |-> PyInt(1)]
              /\ Len(defaults["disks"]) = 1
        /\ pc = "failed" => (OnS390x /\ ~NoStorageOverride)

\* C9: memory.current, memory.maxmemory, cpu_info.vcpus and cpu_info.maxvcpus
\* of the loaded defaults are integers.
C9_NumericFieldsAreIntegers ==
    pc = "loaded" =>
        /\ defaults["memory"]["current"].t = "int"
        /\ defaults["memory"]["maxmemory"].t = "int"
        /\ defaults["cpu_info"]["vcpus"].t = "int"
        /\ defaults["cpu_info"]["maxvcpus"].t = "int"

\* the disk.0 section of the file, when the file has one
HasDiskZero ==
    /\ conf.state = "parsed"
    /\ "storage" \in DOMAIN conf.sections
    /\ 0 \in DOMAIN conf.sections["storage"]

DiskZero == conf.sections["storage"][0]

GivesPool(section) == "pool" \in DOMAIN section /\ section["pool"].name # ""

GivesPath(section) == "path" \in DOMAIN section /\ section["path"] # ""

\* the rules of C5 for a file whose disk.0 section is 'section', once the load
\* has ended: neither pool nor path is KCHTMPL0040E; both is accepted and the
\* descriptor keeps the path without a pool; and a returned descriptor holds
\* nothing of the built-in disk section next to what the file supplied
DiskZeroRules(section) ==
    /\ (~GivesPool(section) /\ ~GivesPath(section))
          => (pc = "failed" /\ loadErr = "KCHTMPL0040E")
    /\ (GivesPool(section) /\ GivesPath(section)) => loadErr # "KCHTMPL0040E"
    /\ pc = "loaded" =>
          LET disk == defaults["disks"][1]
          IN  /\ disk["index"] = 0
              /\ (GivesPool(section) /\ GivesPath(section)) =>
                    (disk["path"] = section["path"] /\ "pool" \notin DOMAIN disk)
              /\ HasPath(disk) => ("path" \in DOMAIN section
                                   /\ disk["path"] = section["path"])
              /\ ~GivesPath(section) =>
                    /\ disk["pool"] = PoolRef(PoolPrefix \o section["pool"].name)
                    /\ \A k \in {"size", "format"} :
                          k \in DOMAIN disk => k \in DOMAIN section

C1_LookupAlwaysReturns ==
    \A c \in Callers : call[c].op = "lookup" => ret[c].kind = "params"

\* the family whose tables the documented resolver reads
TableFamily == IF archRet = "ppc64le" THEN "power" ELSE archRet

\* version is at or above the threshold of distro, for a distro that has one
AtOrAboveThreshold(distro, version) ==
    /\ distro.t = "str"
    /\ TableFamily \in DOMAIN modern_version_bases
    /\ distro.s \in DOMAIN modern_version_bases[TableFamily]
    /\ Truthy(version)
    /\ LooseGE(version, modern_version_bases[TableFamily][distro.s]) = "True"

\* C6: the era a lookup applies is 'modern' exactly when the host is not s390x
\* and the version is non-empty and at or above the distro's threshold; in
\* every other case it is 'old'.
C6_EraSelection ==
    \A c \in Callers :
        call[c].op = "lookup" =>
            call[c].era = IF archRet # "s390x"
                             /\ AtOrAboveThreshold(call[c].distro, call[c].version)
                          THEN "modern" ELSE "old"

\* C7: on a ppc64le host what lookup applies for an era, and what
\* get_template_default returns for that era, are the 'power' table entries.
C7_Ppc64leReadsPowerTables ==
    host.machine = Ppc64le =>
        \A c \in Callers :
            /\ (call[c].op = "lookup" /\ ret[c].kind = "params") =>
                  \A f \in DOMAIN template_specs["power"][call[c].era] :
                      heap[ret[c].ref][f] = template_specs["power"][call[c].era][f]
            /\ (call[c].op = "get_template_default" /\ ret[c].kind = "scalar"
                  /\ call[c].field \in DOMAIN template_specs["power"][call[c].template_type])
                  => ret[c].val
                       = template_specs["power"][call[c].template_type][call[c].field]

CustomFields == {"video_model", "nic_model"}

\* the custom override of a distro applies on this host to this version
Overrides(distro, version) ==
    /\ archRet \in DOMAIN custom_specs[distro][1].config
    /\ LooseGE(version, custom_specs[distro][1].v) = "True"

\* the parameters p hold value v under key f
Holds(p, f, v) == f \in DOMAIN p /\ p[f] = v

\* C8: for a distro with a custom override, a returned lookup holds the
\* override's fields for this family exactly when the version is at or above
\* the gate, over the fields of the era that was selected, and the caller's
\* distro and version decide it even when os_distro and os_version read
\* 'unknown'; a version that cannot be compared returns no parameters.
C8_CustomOverrideOnOriginalInputs ==
    \A c \in Callers :
        (call[c].op = "lookup" /\ call[c].distro.t = "str"
           /\ call[c].distro.s \in DOMAIN custom_specs) =>
            LET d == call[c].distro.s
                v == call[c].version
                over == custom_specs[d][1].config
            IN  IF ret[c].kind # "params"
                THEN /\ ret[c].kind = "raise"
                     /\ ~Overrides(d, v)
                ELSE LET p == heap[ret[c].ref]
                         base == template_specs[archRet][call[c].era]
                     IN  /\ \A f \in CustomFields \cup DOMAIN base :
                               IF Overrides(d, v) /\ f \in DOMAIN over[archRet]
                               THEN Holds(p, f, over[archRet][f])
                               ELSE IF f \in DOMAIN base THEN Holds(p, f, base[f])
                               ELSE f \notin DOMAIN p
                         /\ (d = "windows" /\ v = V(<<"x", "p">>) /\ archRet = "x86") =>
                               /\ Holds(p, "nic_model", "pcnet")
                               /\ Holds(p, "disk_bus", "ide")
                               /\ Holds(p, "os_distro", DStr("unknown"))
                               /\ Holds(p, "os_version", V(Unknown))
                         /\ (d = "fedora" /\ archRet = "x86"
                               /\ v \in {V(<<"2", "2">>), V(<<"2", "2", "a">>), V(<<"2", "3">>)}) =>
                               /\ Holds(p, "video_model", "qxl")
                               /\ Holds(p, "disk_bus", "virtio")
                               /\ Holds(p, "tablet_bus", "usb")
                         /\ (d = "fedora"
                               /\ v \in {V(<<"5">>), V(<<"1", "6">>), V(<<"2", "1">>)}) =>
                               "video_model" \notin DOMAIN p

\* C8 witness: on x86 lookup('windows', 'xp') returned the override over
\* parameters relabelled 'unknown'
C8_WindowsXpReturned ==
    \E c \in Callers :
        /\ archRet = "x86"
        /\ call[c].op = "lookup"
        /\ call[c].distro = DStr("windows")
        /\ call[c].version = V(<<"x", "p">>)
        /\ ret[c].kind = "params"
        /\ heap[ret[c].ref]["nic_model"] = "pcnet"
        /\ heap[ret[c].ref]["os_distro"] = DStr("unknown")

\* the defaults the import computed
Baseline == get_tmpl_defaults(host, conf).val

\* C10: the shared defaults stay what the import computed, no value a caller
\* holds is changed by anyone but that caller, and a lookup returns what the
\* same lookup returns on the unchanged defaults.
C10_ReturnedValuesAreIndependent ==
    /\ defaults = Baseline
    /\ \A c \in Callers :
          orig[c].kind = "held" =>
              /\ Deref(heap, ret[c].ref) = orig[c].now
              /\ (call[c].op = "lookup") =>
                    orig[c].first
                      = LookupParams(Baseline, host, call[c].distro, call[c].version).val
              /\ (call[c].op = "get_template_default") =>
                    orig[c].first = Baseline[call[c].field]

\* C10 witness: both callers hold the result of the same lookup and one of
\* them has changed its own
C10_OneOfTwoResultsChanged ==
    /\ ret["c1"].kind = "params" /\ ret["c2"].kind = "params"
    /\ call["c1"] = call["c2"]
    /\ orig["c1"].now # orig["c1"].first
    /\ orig["c2"].now = orig["c2"].first

(***************************************************************************)
(* The libvirt probes of src/model/featuretests.py.                        *)
(***************************************************************************)
\* probes made in one run
MaxProbes == 3

\* e.get_error_code() values the code tests for
NfsFailureCode == 38

FcFailureCode == 27

\* error codes a libvirtError may carry: the two the code tests for and others
ErrorCodes == {1, 9, 27, 38, 42, 55, 66, 90}

Environments == {"production", "development"}

\* how the hypervisor call of a probe ends: it returns, it raises
\* libvirt.libvirtError with an error code, or it raises another exception
Outcomes ==
    {[kind |-> "ok", code |-> 0], [kind |-> "exception", code |-> 0]}
      \cup {[kind |-> "libvirtError", code |-> n] : n \in ErrorCodes}

\* how pool.undefine() ends
UndefineOutcomes == {"ok", "libvirtError"}

\* the handler is registered in a production environment only
disable_libvirt_error_logging(environment, handler) ==
    IF environment # "production" THEN handler ELSE "silenced"

enable_libvirt_error_logging(environment, handler) ==
    IF environment # "production" THEN handler ELSE "default"

\* try / except libvirt.libvirtError / finally of a probe, up to the end of the
\* except clause: pending is what the function is about to do when the finally
\* clause starts ("fall" is falling out of the try statement)
TryExcept(o, known, logs) ==
    CASE o.kind = "ok" -> [pending |-> "fall", logged |-> FALSE]
      [] o.kind = "libvirtError" ->
           [pending |-> IF o.code = known THEN "False" ELSE "fall", logged |-> logs]
      [] OTHER -> [pending |-> "raise", logged |-> FALSE]

\* the statement after the try statement is 'return True'
Completion(pending) == IF pending = "fall" THEN "True" ELSE pending

\* libvirt_support_nfs_probe(conn), conn.findStoragePoolSources ending as o
libvirt_support_nfs_probe(environment, handler, o) ==
    LET silenced == disable_libvirt_error_logging(environment, handler)
        t == TryExcept(o, NfsFailureCode, TRUE)
    IN  [handler |-> enable_libvirt_error_logging(environment, silenced),
         logged |-> t.logged, pending |-> t.pending, pool |-> "none",
         result |-> Completion(t.pending)]

\* libvirt_support_fc_host(conn), conn.storagePoolDefineXML ending as o and
\* pool.undefine(), when it is called, ending as u
libvirt_support_fc_host(environment, handler, o, u) ==
    LET silenced == disable_libvirt_error_logging(environment, handler)
        t == TryExcept(o, FcFailureCode, FALSE)
        defined == o.kind = "ok"
    IN  [handler |-> enable_libvirt_error_logging(environment, silenced),
         logged |-> t.logged, pending |-> t.pending,
         pool |-> IF ~defined THEN "none"
                  ELSE IF u = "ok" THEN "undefined" ELSE "defined",
         result |-> IF defined /\ u # "ok" THEN "raise" ELSE Completion(t.pending)]

\* what a finished probe leaves in the state
Probed(fn, o, r) ==
    [pc |-> "done", fn |-> fn, environment |-> probe.environment,
     handler |-> r.handler, outcome |-> o.kind, code |-> o.code, pool |-> r.pool,
     logged |-> r.logged, pending |-> r.pending, result |-> r.result,
     calls |-> probe.calls + 1]

NfsProbe ==
    /\ probe.calls < MaxProbes
    /\ \E o \in Outcomes :
          probe' = Probed("nfs", o,
                          libvirt_support_nfs_probe(probe.environment, probe.handler, o))
    /\ UNCHANGED <<host, conf, pc, archRet, loadErr, heap, ret, call, orig, writes>>

FcHost ==
    /\ probe.calls < MaxProbes
    /\ \E o \in Outcomes, u \in UndefineOutcomes :
          probe' = Probed("fc", o,
                          libvirt_support_fc_host(probe.environment, probe.handler, o, u))
    /\ UNCHANGED <<host, conf, pc, archRet, loadErr, heap, ret, call, orig, writes>>

InitProbe ==
    \E e \in Environments :
        /\ host = Host(S390x, FALSE, SmallMem, NoIcons)
        /\ conf = ShippedFile
        /\ pc = "boot"
        /\ archRet = "pending"
        /\ loadErr = ""
        /\ heap = EmptyDict
        /\ ret = [c0 \in Callers |-> NoRet]
        /\ call = [c0 \in Callers |-> NoCall]
        /\ orig = [c0 \in Callers |-> NoRet]
        /\ writes = 0
        /\ probe = Idle(e)

NextProbe == NfsProbe \/ FcHost

SpecProbe == InitProbe /\ [][NextProbe]_vars

\* the error code the probe that ran tests for
KnownFailureCode == IF probe.fn = "nfs" THEN NfsFailureCode ELSE FcFailureCode

\* C11: a probe whose hypervisor call failed with the known probe-failure
\* code (38 for NFS, 27 for Fibre Channel) returns false without raising; one
\* whose call failed in any other way raises; a probe returns true only when
\* the hypervisor call succeeded.
C11_ProbeFailureHandling ==
    probe.pc = "done" =>
        /\ (probe.outcome = "libvirtError" /\ probe.code = KnownFailureCode)
              => probe.result = "False"
        /\ (probe.outcome = "exception"
              \/ (probe.outcome = "libvirtError" /\ probe.code # KnownFailureCode))
              => probe.result = "raise"
        /\ probe.result = "True" => probe.outcome = "ok"

====
